---- MODULE Spec2Model ----
(***************************************************************************)
(* Model of CustomClassesInPython.py: the class Rectangle, whose __iter__  *)
(* is a generator function yielding {'length': ...} then {'width': ...},   *)
(* and the demonstration block run under __name__ == "__main__".           *)
(*                                                                         *)
(* A Python mapping with string keys is a TLA+ function on a set of        *)
(* strings: {'length': 10} is ("length" :> 10), an instance's attribute    *)
(* dictionary is [length |-> l, width |-> w].                              *)
(***************************************************************************)
EXTENDS Integers, Sequences, FiniteSets, TLC

VARIABLES
    name,      \* the module's __name__: "__main__" when run directly
    mpc,       \* position of the module-level code (lines 11-14)
    rect,      \* attribute dictionary of the instance; empty while none exists
    made,      \* number of Rectangle instances a construction call returned
    lastcall,  \* the latest construction call: its arguments and its outcome
    gens,      \* the generator objects alive, one per consumer that holds one
    cons,      \* per consumer: the generator it holds and what it received
    stdout,    \* the lines printed so far
    sets       \* number of external attribute reassignments so far

vars == <<name, mpc, rect, made, lastcall, gens, cons, stdout, sets>>

----------------------------------------------------------------------------
(* Bounds *)

MaxIters == 2      \* fresh iteration requests per consumer
MaxReqs  == 4      \* element requests a consumer makes on one iterator
MaxSets  == 2      \* external attribute reassignments

Values    == {-5, 0}              \* integers a client passes or assigns
Consumers == {"c1", "c2"}
ForLoop   == "c1"                 \* the consumer that is the for statement

----------------------------------------------------------------------------
(* Pure helpers *)

NoAttrs == [k \in {} |-> 0]

Params == {"length", "width"}

\* all keyword-argument dictionaries a caller can pass, omissions included
ArgDicts == UNION {[D -> Values] : D \in SUBSET Params}

IsPrefix(s, t) == /\ Len(s) <= Len(t)
                  /\ \A i \in 1..Len(s) : s[i] = t[i]

DigitStr(d) ==
    CASE d = 0 -> "0" [] d = 1 -> "1" [] d = 2 -> "2" [] d = 3 -> "3"
      [] d = 4 -> "4" [] d = 5 -> "5" [] d = 6 -> "6" [] d = 7 -> "7"
      [] d = 8 -> "8" [] d = 9 -> "9"

RECURSIVE NatStr(_)
NatStr(n) == IF n < 10 THEN DigitStr(n)
             ELSE NatStr(n \div 10) \o DigitStr(n % 10)

\* repr() of an int
IntRepr(n) == IF n < 0 THEN "-" \o NatStr(-n) ELSE NatStr(n)

\* DictRepr as a JSON encoder would write the mapping, with double quotes
DictReprJson(m) ==
    LET k == CHOOSE x \in DOMAIN m : TRUE
    IN  "{\"" \o k \o "\": " \o IntRepr(m[k]) \o "}"

\* repr() of a single-entry mapping with a string key and an int value,
\* which is what print() writes
DictRepr(m) ==
    LET k == CHOOSE x \in DOMAIN m : TRUE
    IN  "{'" \o k \o "': " \o IntRepr(m[k]) \o "}"

----------------------------------------------------------------------------
(* The class Rectangle *)

\* Rectangle with both parameters defaulting to 0
RectangleDefaults(args) ==
    [exc  |-> "none",
     self |-> [f \in Params |-> IF f \in DOMAIN args THEN args[f] ELSE 0]]

\* Rectangle rejecting negative dimensions
RectangleValidating(args) ==
    IF ~(Params \subseteq DOMAIN args)
    THEN [exc |-> "TypeError", self |-> NoAttrs]
    ELSE IF args["length"] < 0 \/ args["width"] < 0
         THEN [exc |-> "ValueError", self |-> NoAttrs]
         ELSE [exc  |-> "none",
               self |-> [length |-> args["length"], width |-> args["width"]]]

\* Rectangle(**args): argument binding against the signature of __init__
\* (both parameters required, no defaults) and then its body, which stores
\* both values as given.  The result is the raised exception, if any, and the
\* attribute dictionary of the instance returned.
Rectangle(args) ==
    IF Params \subseteq DOMAIN args
    THEN [exc  |-> "none",
          self |-> [length |-> args["length"], width |-> args["width"]]]
    ELSE [exc  |-> "TypeError", self |-> NoAttrs]

\* Resume with the two yield statements in the other order
ResumeWidthFirst(g, self) ==
    CASE g = "created" ->
           [state |-> "at_length", exc |-> "none",
            value |-> ("width" :> self["width"]), self |-> self]
      [] g = "at_length" ->
           [state |-> "at_width", exc |-> "none",
            value |-> ("length" :> self["length"]), self |-> self]
      [] OTHER ->
           [state |-> "closed", exc |-> "StopIteration",
            value |-> NoAttrs, self |-> self]

\* Resume with the second yield reading the wrong attribute
ResumeWidthFromLength(g, self) ==
    CASE g = "created" ->
           [state |-> "at_length", exc |-> "none",
            value |-> ("length" :> self["length"]), self |-> self]
      [] g = "at_length" ->
           [state |-> "at_width", exc |-> "none",
            value |-> ("width" :> self["length"]), self |-> self]
      [] OTHER ->
           [state |-> "closed", exc |-> "StopIteration",
            value |-> NoAttrs, self |-> self]

\* Resume with a body that clears each attribute once it has yielded it
ResumeConsuming(g, self) ==
    CASE g = "created" ->
           [state |-> "at_length", exc |-> "none",
            value |-> ("length" :> self["length"]),
            self |-> [self EXCEPT !["length"] = 0]]
      [] g = "at_length" ->
           [state |-> "at_width", exc |-> "none",
            value |-> ("width" :> self["width"]),
            self |-> [self EXCEPT !["width"] = 0]]
      [] OTHER ->
           [state |-> "closed", exc |-> "StopIteration",
            value |-> NoAttrs, self |-> self]

\* Resume with the two yield statements inside an endless loop
ResumeLooping(g, self) ==
    CASE g \in {"created", "at_width"} ->
           [state |-> "at_length", exc |-> "none",
            value |-> ("length" :> self["length"]), self |-> self]
      [] g = "at_length" ->
           [state |-> "at_width", exc |-> "none",
            value |-> ("width" :> self["width"]), self |-> self]
      [] OTHER ->
           [state |-> "closed", exc |-> "StopIteration",
            value |-> NoAttrs, self |-> self]

\* One resumption of the generator made from __iter__'s body: g is the place
\* the generator is suspended at, self the instance's attribute dictionary as
\* it is at this resumption.  The result is the new place, the exception
\* raised ("none" when a value is yielded), the value yielded and the
\* instance's attribute dictionary afterwards.
Resume(g, self) ==
    CASE g = "created" ->
           IF "length" \in DOMAIN self
           THEN [state |-> "at_length", exc |-> "none",
                 value |-> ("length" :> self["length"]), self |-> self]
           ELSE [state |-> "closed", exc |-> "AttributeError",
                 value |-> NoAttrs, self |-> self]
      [] g = "at_length" ->
           IF "width" \in DOMAIN self
           THEN [state |-> "at_width", exc |-> "none",
                 value |-> ("width" :> self["width"]), self |-> self]
           ELSE [state |-> "closed", exc |-> "AttributeError",
                 value |-> NoAttrs, self |-> self]
      [] OTHER ->
           [state |-> "closed", exc |-> "StopIteration",
            value |-> NoAttrs, self |-> self]

\* Iter handing a consumer the generator it already holds, where it stands
IterReuse(gs, c) ==
    [ref |-> c, gens |-> IF gs[c] = "none" THEN [gs EXCEPT ![c] = "created"]
                         ELSE gs]

\* Iter handing every consumer the one generator the instance keeps
IterShared(gs, c) ==
    LET held == {d \in Consumers : gs[d] # "none"}
    IN  IF held = {}
        THEN [ref |-> c, gens |-> [gs EXCEPT ![c] = "created"]]
        ELSE [ref |-> CHOOSE d \in held : TRUE, gens |-> gs]

\* iter(rect) requested by consumer c: calling the generator function runs
\* none of its body and returns a new generator object, suspended at the
\* start.  The generator c held before is released, so the new one takes c's
\* place among the generators gs.
Iter(gs, c) ==
    [ref |-> c, gens |-> [gs EXCEPT ![c] = "created"]]

\* what consumer c's record becomes when it is handed the generator ref
\* for an instance whose attribute dictionary is self
Bind(k, ref, self) ==
    [ref |-> ref, got |-> <<>>, reqs |-> 0, exc |-> "none",
     prev |-> k.got, iters |-> k.iters + 1, snap |-> self]

\* what consumer c's record becomes when its request was answered by r
Receive(k, r) ==
    [k EXCEPT !.got  = IF r.exc = "none" THEN Append(@, r.value) ELSE @,
              !.reqs = @ + 1,
              !.exc  = r.exc]

----------------------------------------------------------------------------
(* Initial state *)

NoConsumer ==
    [ref |-> "none", got |-> <<>>, reqs |-> 0, exc |-> "none",
     prev |-> <<>>, iters |-> 0, snap |-> NoAttrs]

Init ==
    /\ name \in {"__main__", "CustomClassesInPython"}
    /\ mpc = "guard"
    /\ rect = NoAttrs
    /\ made = 0
    /\ lastcall = [done |-> FALSE, args |-> NoAttrs, exc |-> "none"]
    /\ gens = [c \in Consumers |-> "none"]
    /\ cons = [c \in Consumers |-> NoConsumer]
    /\ stdout = <<>>
    /\ sets = 0

----------------------------------------------------------------------------
(* The module-level code, lines 11-14 *)

DemoArgs == [length |-> 10, width |-> 5]

\* line 11: if __name__ == "__main__"
MainGuard ==
    /\ mpc = "guard"
    /\ mpc' = IF name = "__main__" THEN "construct" ELSE "imported"
    /\ UNCHANGED <<name, rect, made, lastcall, gens, cons, stdout, sets>>

\* line 12: rect = Rectangle(length=10, width=5)
MainConstruct ==
    /\ mpc = "construct"
    /\ LET r == Rectangle(DemoArgs)
       IN  /\ lastcall' = [done |-> TRUE, args |-> DemoArgs, exc |-> r.exc]
           /\ IF r.exc = "none"
              THEN /\ rect' = r.self
                   /\ made' = made + 1
                   /\ mpc' = "for_iter"
              ELSE /\ UNCHANGED <<rect, made>>
                   /\ mpc' = "exit1"
    /\ UNCHANGED <<name, gens, cons, stdout, sets>>

\* line 13: the for statement obtains iter(rect) once
MainIter ==
    /\ mpc = "for_iter"
    /\ LET i == Iter(gens, ForLoop)
       IN  /\ gens' = i.gens
           /\ cons' = [cons EXCEPT ![ForLoop] = Bind(@, i.ref, rect)]
    /\ mpc' = "for_next"
    /\ UNCHANGED <<name, rect, made, lastcall, stdout, sets>>

\* line 13: the for statement requests the next element; StopIteration ends
\* the loop and with it the program, any other exception is uncaught
MainForNext ==
    /\ mpc = "for_next"
    /\ LET ref == cons[ForLoop].ref
           r   == Resume(gens[ref], rect)
       IN  /\ gens' = [gens EXCEPT ![ref] = r.state]
           /\ rect' = r.self
           /\ cons' = [cons EXCEPT ![ForLoop] = Receive(@, r)]
           /\ mpc' = CASE r.exc = "none" -> "print"
                       [] r.exc = "StopIteration" -> "exit0"
                       [] OTHER -> "exit1"
    /\ UNCHANGED <<name, made, lastcall, stdout, sets>>

\* line 14: print(attribute)
MainPrint ==
    /\ mpc = "print"
    /\ LET got == cons[ForLoop].got
       IN  stdout' = Append(stdout, DictRepr(got[Len(got)]))
    /\ mpc' = "for_next"
    /\ UNCHANGED <<name, rect, made, lastcall, gens, cons, sets>>

----------------------------------------------------------------------------
(* Use of the class by importing code *)

\* Rectangle(**args) with any values, some possibly omitted
Construct(args) ==
    /\ mpc = "imported"
    /\ made = 0
    /\ LET r == Rectangle(args)
       IN  /\ lastcall' = [done |-> TRUE, args |-> args, exc |-> r.exc]
           /\ IF r.exc = "none"
              THEN /\ rect' = r.self
                   /\ made' = made + 1
              ELSE UNCHANGED <<rect, made>>
    /\ UNCHANGED <<name, mpc, gens, cons, stdout, sets>>

\* consumer c requests a fresh iteration: iter(rect)
IterReq(c) ==
    /\ mpc = "imported"
    /\ made > 0
    /\ cons[c].iters < MaxIters
    /\ LET i == Iter(gens, c)
       IN  /\ gens' = i.gens
           /\ cons' = [cons EXCEPT ![c] = Bind(@, i.ref, rect)]
    /\ UNCHANGED <<name, mpc, rect, made, lastcall, stdout, sets>>

\* consumer c requests the next element of the iterator it holds: next(it)
NextReq(c) ==
    /\ mpc = "imported"
    /\ cons[c].ref # "none"
    /\ cons[c].reqs < MaxReqs
    /\ LET ref == cons[c].ref
           r   == Resume(gens[ref], rect)
       IN  /\ gens' = [gens EXCEPT ![ref] = r.state]
           /\ rect' = r.self
           /\ cons' = [cons EXCEPT ![c] = Receive(@, r)]
    /\ UNCHANGED <<name, mpc, made, lastcall, stdout, sets>>

\* external reassignment of an attribute to a different value: rect.f = v
\* (assigning the value the attribute already has changes nothing)
SetAttr(f, v) ==
    /\ mpc = "imported"
    /\ made > 0
    /\ sets < MaxSets
    /\ rect[f] # v
    /\ rect' = [rect EXCEPT ![f] = v]
    /\ sets' = sets + 1
    /\ UNCHANGED <<name, mpc, made, lastcall, gens, cons, stdout>>

----------------------------------------------------------------------------
(* Specifications *)

Main == MainGuard \/ MainConstruct \/ MainIter \/ MainForNext \/ MainPrint

Next ==
    \/ Main
    \/ \E args \in ArgDicts : Construct(args)
    \/ \E c \in Consumers : IterReq(c)
    \/ \E c \in Consumers : NextReq(c)

\* the instance's attributes are never reassigned from outside
Spec == Init /\ [][Next]_vars

\* the module-level code runs to its end
LiveSpec == Spec /\ WF_vars(Main)

NextSetAttr ==
    \/ Next
    \/ \E f \in Params, v \in Values : SetAttr(f, v)

\* importing code may also reassign the attributes
SpecSetAttr == Init /\ [][NextSetAttr]_vars

----------------------------------------------------------------------------
(* Properties *)

\* the sequence a full iteration over an instance with attributes a delivers
Expected(a) == << ("length" :> a["length"]), ("width" :> a["width"]) >>

Holders == {c \in Consumers : cons[c].ref # "none"}

Exhausted(c) == cons[c].ref # "none" /\ cons[c].exc = "StopIteration"

\* consumer c was the one that acted in this step
Acted(c) == cons'[c] # cons[c]

\* C1: an instance constructed with length=l, width=w delivers, when iterated
\* to exhaustion, exactly <<{'length': l}, {'width': w}>>: what has been
\* delivered so far is always a prefix of that sequence, and at exhaustion it
\* is the whole of it.
C1_YieldsLengthThenWidth ==
    \A c \in Holders :
        /\ IsPrefix(cons[c].got, Expected(lastcall.args))
        /\ Exhausted(c) => cons[c].got = Expected(lastcall.args)

C1_Witness ==
    \E c \in Holders :
        /\ Exhausted(c)
        /\ lastcall.args = [length |-> -5, width |-> 0]
        /\ cons[c].got = << [length |-> -5], [width |-> 0] >>

\* C2: a second fresh iteration request by the same consumer starts again
\* from the first element, however far the first iteration was consumed, and
\* delivers the same sequence <<{'length': l}, {'width': w}>> as the first.
C2_Restartable ==
    \A c \in Holders :
        cons[c].iters >= 2 =>
            /\ IsPrefix(cons[c].got, Expected(rect))
            /\ IsPrefix(cons[c].prev, Expected(rect))
            /\ Exhausted(c) =>
                  /\ cons[c].got = Expected(rect)
                  /\ Len(cons[c].prev) = 2 => cons[c].prev = cons[c].got

C2_Witness ==
    /\ \A c \in Consumers : cons[c].iters = 2 /\ Exhausted(c)
    /\ Len(cons["c1"].prev) = 2
    /\ Len(cons["c2"].prev) = 1
    /\ rect["length"] # rect["width"]

\* C3: two consumers of one instance share no iteration state: under every
\* interleaving each receives {'length': l} first and {'width': w} second, and
\* a step of one consumer leaves the other's generator and record as they are.
C3_Inv ==
    \A c \in Holders :
        /\ IsPrefix(cons[c].got, Expected(rect))
        /\ Len(cons[c].got) = IF cons[c].reqs < 2 THEN cons[c].reqs ELSE 2

C3_Step ==
    \A c \in Consumers : \A d \in Consumers \ {c} :
        Acted(c) =>
            /\ cons'[d] = cons[d]
            /\ cons[d].ref # "none" => gens'[cons[d].ref] = gens[cons[d].ref]

C3_IndependentConsumers == []C3_Inv /\ [][C3_Step]_vars

C3_Witness ==
    /\ cons["c1"].reqs = 1 /\ gens[cons["c1"].ref] = "at_length"
    /\ cons["c2"].reqs = 3 /\ gens[cons["c2"].ref] = "closed"
    /\ cons["c1"].got = << ("length" :> rect["length"]) >>
    /\ cons["c2"].got = Expected(rect)

\* C4: iteration does not change the instance: from the creation of an
\* iterator through every request up to exhaustion, length and width are the
\* values they had when the iterator was created.
C4_Inv == \A c \in Holders : rect = cons[c].snap

C4_Step == (\E c \in Consumers : Acted(c)) => rect' = rect

C4_IterationPure == []C4_Inv /\ [][C4_Step]_vars

C4_Witness ==
    /\ gens["c1"] = "closed" /\ cons["c1"].reqs = 3
    /\ gens["c2"] = "created" /\ cons["c2"].iters = 1
    /\ rect = [length |-> -5, width |-> -5]

\* C5: a construction call that omits length, width or both raises TypeError
\* and produces no instance, complete or partial.
C5_OmittedArgumentFails ==
    (lastcall.done /\ ~(Params \subseteq DOMAIN lastcall.args)) =>
        /\ lastcall.exc = "TypeError"
        /\ made = 0
        /\ rect = NoAttrs

C5_Witness ==
    /\ lastcall.done
    /\ DOMAIN lastcall.args = {"length"}
    /\ lastcall.exc = "TypeError"

\* C6: a construction call that supplies both values succeeds whatever the
\* values are (zero and negatives included) and stores them as given, and
\* iterating the instance raises nothing but the StopIteration that ends it
\* and delivers the stored values.
C6_NoValidation ==
    (lastcall.done /\ Params \subseteq DOMAIN lastcall.args) =>
        /\ lastcall.exc = "none"
        /\ made = 1
        /\ rect = lastcall.args
        /\ \A c \in Holders :
              /\ cons[c].exc \in {"none", "StopIteration"}
              /\ \A i \in 1..Len(cons[c].got) :
                    \E f \in Params : cons[c].got[i] = (f :> lastcall.args[f])

C6_Witness ==
    /\ lastcall.args = [length |-> 0, width |-> -5]
    /\ \E c \in Holders :
          /\ Exhausted(c)
          /\ cons[c].got = << [length |-> 0], [width |-> -5] >>

\* C7: abandoning an iteration after its first element is safe: the fields
\* are unchanged, and a fresh iteration request, by the same consumer or by
\* another, delivers the whole sequence from the first element.
C7_AbandonSafe ==
    \A c \in Holders :
        /\ (cons[c].iters >= 2 /\ Len(cons[c].prev) = 1) =>
              /\ rect = lastcall.args
              /\ Len(cons[c].got) = (IF cons[c].reqs < 2 THEN cons[c].reqs ELSE 2)
              /\ \A i \in 1..Len(cons[c].got) :
                    cons[c].got[i] = Expected(lastcall.args)[i]
        /\ (cons[c].reqs = 1 /\ Len(cons[c].got) = 1) =>
              \A d \in Holders \ {c} :
                  /\ rect = lastcall.args
                  /\ cons[d].reqs >= 2 => cons[d].got = Expected(lastcall.args)

C7_Witness ==
    /\ cons["c1"].iters = 2 /\ Len(cons["c1"].prev) = 1
    /\ cons["c1"].reqs = 2 /\ Len(cons["c1"].got) = 2
    /\ cons["c2"].iters = 1 /\ cons["c2"].reqs = 1
    /\ gens["c2"] = "at_length"

\* C8: run directly, the program constructs one Rectangle(10, 5), prints
\* {'length': 10} and then {'width': 5} and nothing else, and ends with exit
\* status 0.
DemoOutput == << "{'length': 10}", "{'width': 5}" >>

C8_Inv ==
    /\ IsPrefix(stdout, DemoOutput)
    /\ name # "__main__" => stdout = <<>>
    /\ mpc # "exit1"
    /\ mpc = "exit0" =>
          /\ stdout = DemoOutput
          /\ made = 1
          /\ rect = [length |-> 10, width |-> 5]

C8_DemoPrintsBoth ==
    []C8_Inv /\ ((name = "__main__") ~> (mpc = "exit0"))

C8_Witness ==
    /\ name = "__main__"
    /\ mpc = "exit0"
    /\ Len(stdout) = 2

\* C9: an iterator is exhausted exactly from the third request on, having
\* delivered two elements, and an exhausted iterator stays exhausted and
\* delivers nothing more, also when the fields are reassigned.
C9_Inv ==
    \A c \in Holders :
        /\ gens[cons[c].ref] = "closed" <=> cons[c].reqs >= 3
        /\ cons[c].reqs >= 3 => (Len(cons[c].got) = 2 /\ Exhausted(c))
        /\ cons[c].reqs < 3 => cons[c].exc = "none"

C9_Step ==
    \A c \in Consumers :
        (cons[c].ref # "none" /\ gens[cons[c].ref] = "closed"
            /\ cons'[c].iters = cons[c].iters) =>
                /\ gens'[cons[c].ref] = "closed"
                /\ cons'[c].got = cons[c].got

C9_Terminates == []C9_Inv /\ [][C9_Step]_vars

C9_Witness ==
    \E c \in Holders :
        /\ cons[c].reqs = MaxReqs
        /\ gens[cons[c].ref] = "closed"
        /\ sets > 0
        /\ cons[c].got # Expected(rect)
        /\ cons[c].got = Expected(cons[c].snap)

\* C10: an element carries the value its field has when that element is
\* requested: the first element the length at the first request, the second
\* the width at the second request; elements already delivered do not change.
FieldAt(n) == IF n = 1 THEN "length" ELSE "width"

C10_Step ==
    \A c \in Consumers :
        /\ cons'[c].iters = cons[c].iters => IsPrefix(cons[c].got, cons'[c].got)
        /\ Len(cons'[c].got) = Len(cons[c].got) + 1 =>
              LET n == Len(cons'[c].got)
              IN  cons'[c].got[n] = (FieldAt(n) :> rect[FieldAt(n)])

C10_ValueAtRequest == [][C10_Step]_vars

C10_Witness ==
    \E c \in Holders :
        /\ Len(cons[c].got) = 2
        /\ cons[c].got[1]["length"] # cons[c].snap["length"]
        /\ cons[c].got[2]["width"] # cons[c].snap["width"]
        /\ cons[c].got[2]["width"] = rect["width"]

====
